---------------------------- MODULE Spec2Model ----------------------------
(***************************************************************************)
(* SeedTogether Pflanzenberater (src/app.py): one run of the Streamlit     *)
(* script, from the user's inputs to the rendered plant tiers.             *)
(*                                                                         *)
(* Temperatures are integers counting tenths of a degree Celsius (the      *)
(* script rounds the average temperature to one decimal, line 83).  A      *)
(* diff is counted in twentieths of a degree, so that the midpoint         *)
(* (min_temp + max_temp) / 2 stays an integer.  A Python float that is     *)
(* None, NaN or a number is a record [k |-> "None" | "nan" | "num", v].    *)
(* Umlauts of the script's texts are written ae, oe, ue.                   *)
(***************************************************************************)
EXTENDS Integers, Sequences, FiniteSets

VARIABLES
    pc,           \* position of the script
    stadt,        \* st.text_input (line 195)
    standort,     \* st.radio (line 196)
    licht,        \* st.selectbox (line 197)
    level,        \* st.selectbox (line 198)
    zeit,         \* st.selectbox (line 199)
    geo,          \* the geocoding API's answer to get_coords
    coords,       \* "unset", "None" or "dict"
    wetter,       \* the three weather APIs' answers to get_weather
    temp,         \* rounded 5-year mean temperature
    sun,          \* "unset", "None", "nan" or "num"
    temp_now,     \* "unset", "None" or "val"
    hum,
    uv,
    air,
    pflanzen_df,  \* the catalog: a sequence of plant records
    perfect,      \* row numbers of pflanzen_df
    candidates,   \* row numbers of pflanzen_df
    similar,      \* row numbers of pflanzen_df
    sections,     \* headers, infos and warnings written so far
    metrics,      \* the metric cards written by zeige_metriken
    panels        \* the plant expanders written by zeige_pflanze

vars == <<pc, stadt, standort, licht, level, zeit, geo, coords, wetter, temp,
          sun, temp_now, hum, uv, air, pflanzen_df, perfect, candidates,
          similar, sections, metrics, panels>>

\* Largest catalog the model loads.
MaxCat == 5

Unset == [k |-> "unset", v |-> 0]
PyNone == [k |-> "None", v |-> 0]
NaN == [k |-> "nan", v |-> 0]
Num(x) == [k |-> "num", v |-> x]


(***************************************************************************)
(* Python and pandas helpers.                                              *)
(***************************************************************************)

\* str.lower() on the vocabulary of the catalog and of the widgets.
Lower(s) ==
    CASE s = "Balkon" -> "balkon"
      [] s = "BALKON" -> "balkon"
      [] s = "Garten" -> "garten"
      [] s = "Beides" -> "beides"
      [] s = "Sonnig" -> "sonnig"
      [] s = "Schattig" -> "schattig"
      [] s = "Halbschattig" -> "halbschattig"
      [] s = "Anfaenger" -> "anfaenger"
      [] s = "Fortgeschritten" -> "fortgeschritten"
      [] s = "Experte" -> "experte"
      [] s = "Wenig" -> "wenig"
      [] s = "Mittel" -> "mittel"
      [] s = "Hoch" -> "hoch"
      [] OTHER -> s

\* round(x, 1) of the float x = n / (10 * scale): the nearest tenth.  When x
\* lies halfway between two tenths the binary value of the float decides, so
\* both neighbours are possible results.
Round1(n, scale) ==
    LET lo == n \div scale
        r == n % scale
    IN  IF 2 * r < scale THEN {lo}
        ELSE IF 2 * r > scale THEN {lo + 1}
        ELSE {lo, lo + 1}

\* The rows of a frame kept by a boolean mask, in frame order.
RECURSIVE RowsFrom(_, _, _)
RowsFrom(i, n, keep) ==
    IF i > n THEN <<>>
    ELSE (IF i \in keep THEN <<i>> ELSE <<>>) \o RowsFrom(i + 1, n, keep)

Range(s) == {s[i] : i \in 1..Len(s)}

\* |temp_mid - temp| of a row, in twentieths of a degree (lines 236-237).
Diff(row, t) ==
    LET d == row.min_temp + row.max_temp - 2 * t.v
    IN  IF d < 0 THEN -d ELSE d

\* standort.str.lower().isin([standort.lower(), "beides"]) (lines 225, 234)
StandortPasst(row, st) == Lower(row.standort) \in {Lower(st), "beides"}

\* Comparisons of a catalog number with the float temp; False against NaN.
Leq(a, t) == t.k = "num" /\ a <= t.v
Geq(a, t) == t.k = "num" /\ a >= t.v

\* perfect without the comparison of the experience level.
PerfectRowsAnyLevel(df, t, st, li, le, ze) ==
    RowsFrom(1, Len(df),
        {i \in 1..Len(df) :
            /\ Leq(df[i].min_temp, t)
            /\ Geq(df[i].max_temp, t)
            /\ StandortPasst(df[i], st)
            /\ Lower(df[i].licht) = Lower(li)
            /\ Lower(df[i].zeitaufwand) = Lower(ze)})

\* perfect (lines 222-229)
PerfectRows(df, t, st, li, le, ze) ==
    RowsFrom(1, Len(df),
        {i \in 1..Len(df) :
            /\ Leq(df[i].min_temp, t)
            /\ Geq(df[i].max_temp, t)
            /\ StandortPasst(df[i], st)
            /\ Lower(df[i].licht) = Lower(li)
            /\ Lower(df[i].level) = Lower(le)
            /\ Lower(df[i].zeitaufwand) = Lower(ze)})

\* candidates (lines 231-235): min_temp <= temp * 1.1, max_temp >= temp * 0.9
CandidateRows(df, t, st) ==
    RowsFrom(1, Len(df),
        {i \in 1..Len(df) :
            /\ t.k = "num"
            /\ 10 * df[i].min_temp <= 11 * t.v
            /\ 10 * df[i].max_temp >= 9 * t.v
            /\ StandortPasst(df[i], st)})

\* nsmallest with keep="last": a tie goes to the row that comes last.
RECURSIVE NSmallestKeepLast(_, _, _, _)
NSmallestKeepLast(n, rows, df, t) ==
    IF n = 0 \/ rows = <<>> THEN <<>>
    ELSE LET last == CHOOSE k \in 1..Len(rows) :
                         /\ \A j \in 1..Len(rows) :
                                Diff(df[rows[k]], t) <= Diff(df[rows[j]], t)
                         /\ \A j \in (k + 1)..Len(rows) :
                                Diff(df[rows[j]], t) > Diff(df[rows[k]], t)
             rest == [j \in 1..(Len(rows) - 1) |->
                         IF j < last THEN rows[j] ELSE rows[j + 1]]
         IN  <<rows[last]>> \o NSmallestKeepLast(n - 1, rest, df, t)

\* DataFrame.nsmallest(n, "diff"), keep="first": the n rows of smallest diff,
\* ascending, a tie going to the row that comes first in the frame.
RECURSIVE NSmallest(_, _, _, _)
NSmallest(n, rows, df, t) ==
    IF n = 0 \/ rows = <<>> THEN <<>>
    ELSE LET first == CHOOSE k \in 1..Len(rows) :
                         /\ \A j \in 1..Len(rows) :
                                Diff(df[rows[k]], t) <= Diff(df[rows[j]], t)
                         /\ \A j \in 1..(k - 1) :
                                Diff(df[rows[j]], t) > Diff(df[rows[k]], t)
             rest == [j \in 1..(Len(rows) - 1) |->
                         IF j < first THEN rows[j] ELSE rows[j + 1]]
         IN  <<rows[first]>> \o NSmallest(n - 1, rest, df, t)

\* similar without the exclusion of the perfect rows.
SimilarRowsKeepsPerfect(cand, perf, df, t) == NSmallest(3, cand, df, t)

\* similar (line 238)
SimilarRows(cand, perf, df, t) ==
    LET names == {df[i].name : i \in Range(perf)}
        left == SelectSeq(cand, LAMBDA i : df[i].name \notin names)
    IN  NSmallest(3, left, df, t)

(***************************************************************************)
(* Inputs: what the user can enter, what the catalog file can hold and     *)
(* what the remote services can answer.                                    *)
(***************************************************************************)

Plant(n, lo, hi, st, li, le, ze) ==
    [name |-> n, min_temp |-> lo, max_temp |-> hi, standort |-> st,
     licht |-> li, level |-> le, zeitaufwand |-> ze]

\* Rows a pflanzen_erweitert.csv may hold (temperatures in tenths of a degree).
PlantPool ==
    { Plant("Tomate", 100, 250, "Balkon", "sonnig", "Anfaenger", "Wenig"),
      Plant("Basilikum", 100, 250, "BALKON", "Sonnig", "Anfaenger", "Mittel"),
      Plant("Farn", 101, 250, "Beides", "Schattig", "Anfaenger", "Wenig"),
      Plant("Minze", 40, 200, "beides", "sonnig", "Anfaenger", "wenig"),
      Plant("Rose", -50, 100, "Garten", "sonnig", "Anfaenger", "Wenig"),
      Plant("Lavendel", 150, 300, "Balkon", "halbschattig", "Experte", "Hoch") }

\* The catalogs: up to MaxCat rows of the pool, in any order, names unique.
Catalogs ==
    UNION { { c \in [1..n -> PlantPool] :
                \A i, j \in 1..n : i # j => c[i].name # c[j].name }
            : n \in 0..MaxCat }

StadtInputs == {"", "Berlin"}
StandortOptions == {"Balkon", "Garten"}
LichtOptions == {"sonnig", "schattig"}
LevelOptions == {"Anfaenger", "Experte"}
ZeitOptions == {"Wenig"}

\* Answers of the geocoding API (lines 42-45).
GeoResponses == {"results", "no_results", "http_error", "timeout", "bad_json"}

\* Means of the archive's daily temperatures in hundredths of a degree
\* (line 79); NaN when the archive returns no daily values.
TempMeans == {NaN, Num(0), Num(4), Num(950), Num(1555), Num(1800),
              Num(-500), Num(4000)}

\* Answers of the three weather APIs (lines 75-80): the archive raises, or
\* yields the two means (the sunshine mean "zero", "nan" or "num"); the
\* forecast raises, has no "current" object, has an empty one or a full one;
\* the air-quality API raises, has no "current" object or a full one.
WeatherResponses ==
    { [hist |-> "raise", tmean |-> NaN, smean |-> "nan",
       aktuell |-> "full", air |-> "full"] }
    \cup
    { [hist |-> "ok", tmean |-> m, smean |-> w[1], aktuell |-> w[2], air |-> w[3]] :
        m \in TempMeans,
        w \in { <<"num", "full", "full">>,
                <<"nan", "empty_current", "no_current">>,
                <<"zero", "full", "full">>,
                <<"num", "raise", "full">>,
                <<"num", "no_current", "full">>,
                <<"num", "full", "raise">> } }

NoWeather == [hist |-> "unset", tmean |-> Unset, smean |-> "unset",
              aktuell |-> "unset", air |-> "unset"]

(***************************************************************************)
(* The functions of the script.                                            *)
(***************************************************************************)

\* get_coords that takes an answer with an empty result list as a hit.
get_coords_any_list(resp) ==
    IF resp \in {"results", "no_results"} THEN "dict" ELSE "None"

\* get_coords (lines 30-54): the first result, or None when the list is
\* empty or missing and when the request or its parsing raises.
get_coords(resp) == IF resp = "results" THEN "dict" ELSE "None"

\* get_weather raises (lines 75-77, 85-87): a request that fails, or a
\* forecast answer without "current".
WeatherRaises(w) ==
    \/ w.hist = "raise"
    \/ w.aktuell \in {"raise", "no_current"}
    \/ w.air = "raise"

\* round(temp, 1) if temp else None (line 83): 0.0 is falsy, NaN is truthy.
RoundedTemps(m) ==
    IF m.k = "nan" THEN {NaN}
    ELSE IF m.v = 0 THEN {PyNone}
    ELSE {Num(r) : r \in Round1(m.v, 10)}

\* round(sun, 1) if sun else None (line 84)
RoundedSun(sm) == IF sm = "zero" THEN "None" ELSE sm

\* aktuell["current"].get(...) (lines 85-87)
CurrentField(w) == IF w.aktuell = "full" THEN "val" ELSE "None"

\* air.get("current", {}).get("european_aqi") (line 88)
AirField(w) == IF w.air = "full" THEN "val" ELSE "None"

NoMetrics == [temp |-> "", sun |-> "", temp_now |-> "", hum |-> "",
              air |-> "", uv |-> ""]

\* The text zeige_metriken writes for a value that may be None (line 118).
OrDash(x) == IF x = "None" THEN "-" ELSE x

\* The rating with the thresholds excluded: diff_val < 2, diff_val < 4.
BewertungStrict(diff_val) ==
    IF diff_val.k = "None" THEN ""
    ELSE IF diff_val.v < 20 THEN "Sehr aehnlich"
    ELSE IF diff_val.v < 40 THEN "Okay"
    ELSE "Abweichend"

\* The rating tag (lines 126-132, 146); diff_val in tenths of a degree.
Bewertung(diff_val) ==
    IF diff_val.k = "None" THEN ""
    ELSE IF diff_val.v <= 20 THEN "Sehr aehnlich"
    ELSE IF diff_val.v <= 40 THEN "Okay"
    ELSE "Abweichend"

\* zeige_pflanze (lines 121-160): the rating tag, the deviation text of the
\* title and the hint inside the expander.  diff_val is None or a number of
\* tenths; klima_temp is never None where the script calls it.
zeige_pflanze(row, tier, diff_val, klima_temp) ==
    LET unter == klima_temp.k = "num" /\ klima_temp.v < row.min_temp
        ueber == klima_temp.k = "num" /\ klima_temp.v > row.max_temp
        lage == IF unter THEN "unter" ELSE IF ueber THEN "ueber" ELSE "ideal"
    IN  [ name |-> row.name,
          tier |-> tier,
          bewertung |-> Bewertung(diff_val),
          diff_text |-> IF diff_val.k = "None" THEN "" ELSE lage,
          delta |-> IF diff_val.k = "None" \/ lage = "ideal" THEN 0
                    ELSE diff_val.v,
          hinweis |-> IF unter THEN "Zu kalt" ELSE IF ueber THEN "Zu warm"
                      ELSE "Im Idealbereich" ]

\* numpy.random.RandomState(1).permutation(n), which DataFrame.sample(5,
\* random_state=1) cuts to its first five entries (line 273); rows from 1.
SeedOnePermutation(n) ==
    CASE n = 5 -> <<3, 2, 5, 1, 4>>
      [] n = 6 -> <<3, 2, 5, 1, 4, 6>>
      [] n = 7 -> <<7, 3, 2, 1, 5, 4, 6>>
      [] n = 8 -> <<8, 3, 2, 7, 1, 5, 4, 6>>

\* pflanzen_df.sample(5, random_state=1): ValueError when the frame has
\* fewer than five rows.
SampleRaises(df) == Len(df) < 5

sample(df) == SubSeq(SeedOnePermutation(Len(df)), 1, 5)

(***************************************************************************)
(* The script, top to bottom (lines 195-274).                              *)
(***************************************************************************)

Init ==
    /\ pc = "start"
    /\ stadt \in StadtInputs
    /\ standort \in StandortOptions
    /\ licht \in LichtOptions
    /\ level \in LevelOptions
    /\ zeit \in ZeitOptions
    /\ geo = "unset"
    /\ coords = "None"
    /\ wetter = NoWeather
    /\ temp = Unset
    /\ sun = "unset"
    /\ temp_now = "unset"
    /\ hum = "unset"
    /\ uv = "unset"
    /\ air = "unset"
    /\ pflanzen_df = <<>>
    /\ perfect = <<>>
    /\ candidates = <<>>
    /\ similar = <<>>
    /\ sections = <<>>
    /\ metrics = NoMetrics
    /\ panels = <<>>

\* Lines 202-205: no city entered, or the lookup of the city.
GetCoords ==
    /\ pc = "start"
    /\ IF stadt = ""
       THEN /\ pc' = "lade_csv"
            /\ UNCHANGED <<geo, coords>>
       ELSE \E g \in GeoResponses :
                /\ geo' = g
                /\ coords' = get_coords(g)
                /\ pc' = IF get_coords(g) = "dict" THEN "get_weather"
                         ELSE "nicht_gefunden"
    /\ UNCHANGED <<stadt, standort, licht, level, zeit, wetter, temp, sun,
                   temp_now, hum, uv, air, pflanzen_df, perfect, candidates,
                   similar, sections, metrics, panels>>

\* Lines 206-207: the three requests; an exception ends the run.
GetWeather ==
    /\ pc = "get_weather"
    /\ \E w \in WeatherResponses :
        /\ wetter' = w
        /\ IF WeatherRaises(w)
           THEN /\ pc' = "error"
                /\ UNCHANGED <<temp, sun, temp_now, hum, uv, air>>
           ELSE /\ pc' = "zeige_metriken"
                /\ temp' \in RoundedTemps(w.tmean)
                /\ sun' = RoundedSun(w.smean)
                /\ temp_now' = CurrentField(w)
                /\ hum' = CurrentField(w)
                /\ uv' = CurrentField(w)
                /\ air' = AirField(w)
    /\ UNCHANGED <<stadt, standort, licht, level, zeit, geo, coords,
                   pflanzen_df, perfect, candidates, similar, sections,
                   metrics, panels>>

\* Lines 208-210 with zeige_metriken (lines 111-118): f"{sun:.1f}" raises
\* TypeError when sun is None, after the first card is written.
ZeigeMetriken ==
    /\ pc = "zeige_metriken"
    /\ sections' = Append(sections, "Gefunden")
    /\ IF sun = "None"
       THEN /\ metrics' = [NoMetrics EXCEPT !.temp = temp.k]
            /\ pc' = "error"
       ELSE /\ metrics' = [temp |-> temp.k, sun |-> sun, temp_now |-> temp_now,
                           hum |-> hum, air |-> OrDash(air), uv |-> OrDash(uv)]
            /\ pc' = "lade_csv"
    /\ UNCHANGED <<stadt, standort, licht, level, zeit, geo, coords, wetter,
                   temp, sun, temp_now, hum, uv, air, pflanzen_df, perfect,
                   candidates, similar, panels>>

\* Lines 211-212
StadtNichtGefunden ==
    /\ pc = "nicht_gefunden"
    /\ sections' = Append(sections, "Stadt nicht gefunden")
    /\ pc' = "lade_csv"
    /\ UNCHANGED <<stadt, standort, licht, level, zeit, geo, coords, wetter,
                   temp, sun, temp_now, hum, uv, air, pflanzen_df, perfect,
                   candidates, similar, metrics, panels>>

\* Lines 215-219: the catalog, or st.stop() when the file is missing.
LadeCsv ==
    /\ pc = "lade_csv"
    /\ \/ /\ sections' = Append(sections, "Datei fehlt")
          /\ pc' = "stopped"
          /\ UNCHANGED pflanzen_df
       \/ \E c \in Catalogs :
            /\ pflanzen_df' = c
            /\ pc' = "filter"
            /\ UNCHANGED sections
    /\ UNCHANGED <<stadt, standort, licht, level, zeit, geo, coords, wetter,
                   temp, sun, temp_now, hum, uv, air, perfect, candidates,
                   similar, metrics, panels>>

\* if coords and temp is not None (line 221)
FilterGuard(c, t) == c = "dict" /\ t.k # "None"

\* Lines 221-238: the three frames, or the end of the script.
Filter ==
    /\ pc = "filter"
    /\ IF FilterGuard(coords, temp)
       THEN LET p == PerfectRows(pflanzen_df, temp, standort, licht, level, zeit)
                c == CandidateRows(pflanzen_df, temp, standort)
            IN  /\ perfect' = p
                /\ candidates' = c
                /\ similar' = SimilarRows(c, p, pflanzen_df, temp)
                /\ pc' = "render"
       ELSE /\ pc' = "done"
            /\ UNCHANGED <<perfect, candidates, similar>>
    /\ UNCHANGED <<stadt, standort, licht, level, zeit, geo, coords, wetter,
                   temp, sun, temp_now, hum, uv, air, pflanzen_df, sections,
                   metrics, panels>>

\* The panels of the perfect rows (lines 252-253): no diff is passed.
PerfectPanels(rows, df, t) ==
    [i \in 1..Len(rows) |-> zeige_pflanze(df[rows[i]], "perfect", PyNone, t)]

\* The panels of the similar rows (lines 262-263): round(row["diff"], 1).
SimilarPanels(rows, rd, df, t) ==
    [i \in 1..Len(rows) |-> zeige_pflanze(df[rows[i]], "similar", Num(rd[i]), t)]

\* The panels of the sampled rows (lines 273-274): no diff is passed.
FallbackPanels(rows, df, t) ==
    [i \in 1..Len(rows) |-> zeige_pflanze(df[rows[i]], "fallback", PyNone, t)]

\* The results of round(row["diff"], 1) over the similar rows.
RoundedDiffs(rows, df, t) ==
    { rd \in [1..Len(rows) ->
                UNION {Round1(Diff(df[rows[i]], t), 2) : i \in 1..Len(rows)}] :
        \A i \in 1..Len(rows) : rd[i] \in Round1(Diff(df[rows[i]], t), 2) }

\* The fallback opened whenever perfect is empty.
FallbackGuardPerfectOnly(p, s) == p = <<>>

\* if perfect.empty and similar.empty (line 266)
FallbackGuard(p, s) == p = <<>> /\ s = <<>>

\* Lines 240-274: the header and the three tiers.
Render ==
    /\ pc = "render"
    /\ \E rd \in RoundedDiffs(similar, pflanzen_df, temp) :
        LET s1 == Append(sections, "Empfohlene Pflanzen")
            s2 == Append(s1, IF perfect = <<>> THEN "Keine perfekte Uebereinstimmung"
                             ELSE "Perfekte Treffer")
            s3 == IF similar # <<>> THEN Append(s2, "Nahe Alternativen") ELSE s2
            shown == PerfectPanels(perfect, pflanzen_df, temp)
                     \o SimilarPanels(similar, rd, pflanzen_df, temp)
        IN  IF FallbackGuard(perfect, similar)
            THEN /\ sections' = Append(s3, "Zufaellige Vorschlaege")
                 /\ IF SampleRaises(pflanzen_df)
                    THEN /\ panels' = shown
                         /\ pc' = "error"
                    ELSE /\ panels' = shown \o FallbackPanels(sample(pflanzen_df),
                                                            pflanzen_df, temp)
                         /\ pc' = "done"
            ELSE /\ sections' = s3
                 /\ panels' = shown
                 /\ pc' = "done"
    /\ UNCHANGED <<stadt, standort, licht, level, zeit, geo, coords, wetter,
                   temp, sun, temp_now, hum, uv, air, pflanzen_df, perfect,
                   candidates, similar, metrics>>

Next ==
    \/ GetCoords
    \/ GetWeather
    \/ ZeigeMetriken
    \/ StadtNichtGefunden
    \/ LadeCsv
    \/ Filter
    \/ Render

Spec == Init /\ [][Next]_vars

(***************************************************************************)
(* Vocabulary of the properties.                                           *)
(***************************************************************************)

\* The Filter (lines 221-238) has run in this run of the script.
FilterRan == pc = "render" \/ "Empfohlene Pflanzen" \in Range(sections)

\* The script has come to its end, by its last line or by an exception.
Ended == pc \in {"done", "error"}

\* Two texts that differ at most in the case of their letters.
SameIgnoringCase(a, b) ==
    \/ a = b
    \/ \E S \in { {"Balkon", "balkon", "BALKON"}, {"Garten", "garten"},
                  {"Beides", "beides"}, {"Sonnig", "sonnig"},
                  {"Schattig", "schattig"}, {"Halbschattig", "halbschattig"},
                  {"Anfaenger", "anfaenger"}, {"Experte", "experte"},
                  {"Fortgeschritten", "fortgeschritten"},
                  {"Wenig", "wenig"}, {"Mittel", "mittel"}, {"Hoch", "hoch"} } :
          a \in S /\ b \in S

\* The plant accepts the chosen site: the same site, or "beides".
SiteAccepted(row) ==
    SameIgnoringCase(row.standort, standort) \/ SameIgnoringCase(row.standort, "beides")

\* avg_temp lies in the plant's range.
InRange(row) ==
    temp.k = "num" /\ row.min_temp <= temp.v /\ temp.v <= row.max_temp

\* The plant passes the Similar tier's window: min_temp <= avg_temp * 1.1,
\* max_temp >= avg_temp * 0.9, site accepted.
InWindow(row) ==
    /\ temp.k = "num"
    /\ 10 * row.min_temp <= 11 * temp.v
    /\ 10 * row.max_temp >= 9 * temp.v

\* Twice the distance, in tenths, between the midpoint of the range and avg_temp.
MidDiff(row) ==
    LET m == row.min_temp + row.max_temp
    IN  IF m >= 2 * temp.v THEN m - 2 * temp.v ELSE 2 * temp.v - m

Names(rows) == {pflanzen_df[rows[i]].name : i \in 1..Len(rows)}

Increasing(rows) == \A a, b \in 1..Len(rows) : a < b => rows[a] < rows[b]

TierPanels(tier) == SelectSeq(panels, LAMBDA p : p.tier = tier)

\* The catalog row a panel shows (names are unique in the catalog).
RowOf(p) == CHOOSE r \in Range(pflanzen_df) : r.name = p.name

\* The panels of a tier show the given rows, one each, in their order.
Shows(tier, rows) ==
    /\ Len(TierPanels(tier)) = Len(rows)
    /\ \A i \in 1..Len(rows) : TierPanels(tier)[i].name = pflanzen_df[rows[i]].name

(***************************************************************************)
(* The claims.                                                             *)
(***************************************************************************)

\* C1: once the Filter has run, the Perfect tier is exactly the set of rows
\* with min_temp <= avg_temp <= max_temp, an accepted site (the chosen one or
\* "beides") and light, level and time investment equal to the chosen values,
\* all texts compared without regard to case; the rows are in catalog order
\* and are displayed in that order.
C1_PerfectIsExactlyTheMatches ==
    FilterRan =>
        /\ \A i \in 1..Len(pflanzen_df) :
              i \in Range(perfect) <=>
                  /\ InRange(pflanzen_df[i])
                  /\ SiteAccepted(pflanzen_df[i])
                  /\ SameIgnoringCase(pflanzen_df[i].licht, licht)
                  /\ SameIgnoringCase(pflanzen_df[i].level, level)
                  /\ SameIgnoringCase(pflanzen_df[i].zeitaufwand, zeit)
        /\ Range(perfect) \subseteq 1..Len(pflanzen_df)
        /\ Increasing(perfect)
        /\ pc = "done" => Shows("perfect", perfect)

\* C1 witness: a finished run with two perfect plants, one of them accepted
\* through "beides" or a different spelling, next to a plant that is in range
\* on an accepted site and fails a categorical field.
C1_Witness ==
    /\ pc = "done"
    /\ Len(perfect) >= 2
    /\ \E i \in Range(perfect) : pflanzen_df[i].standort # standort
    /\ \E i \in Range(perfect) : pflanzen_df[i].zeitaufwand # zeit
    /\ \E i \in 1..Len(pflanzen_df) :
          /\ i \notin Range(perfect)
          /\ InRange(pflanzen_df[i])
          /\ SiteAccepted(pflanzen_df[i])

\* C2: no plant is in more than one tier: the similar rows share no name with
\* the perfect rows, no name is displayed twice, and fallback panels appear
\* only beside an empty Perfect and an empty Similar tier.
C2_TiersAreDisjoint ==
    /\ Names(perfect) \cap Names(similar) = {}
    /\ \A a, b \in 1..Len(panels) : a # b => panels[a].name # panels[b].name
    /\ TierPanels("fallback") # <<>> =>
          TierPanels("perfect") = <<>> /\ TierPanels("similar") = <<>>

\* C2 witness: a finished run that shows a perfect plant which also passes the
\* Similar tier's window, beside a non-empty Similar tier.
C2_Witness ==
    /\ pc = "done"
    /\ similar # <<>>
    /\ \E i \in Range(perfect) : i \in Range(candidates)

\* The rows the Similar tier chooses from: in its window, on an accepted site,
\* and not named in Perfect.
SimilarPool ==
    {i \in 1..Len(pflanzen_df) :
        /\ InWindow(pflanzen_df[i])
        /\ SiteAccepted(pflanzen_df[i])
        /\ pflanzen_df[i].name \notin Names(perfect)}

\* C3: once the Filter has run, the Similar tier holds at most 3 rows (all of
\* its pool when that has fewer), in ascending order of diff; no row left out
\* has a smaller diff than a row kept, and of two rows with equal diff the one
\* earlier in the catalog is kept and listed first; they are displayed in
\* that order.
C3_SimilarIsTheThreeNearest ==
    FilterRan =>
        /\ Len(similar) <= 3
        /\ Range(similar) \subseteq SimilarPool
        /\ Cardinality(Range(similar)) = Len(similar)
        /\ Len(similar) = IF Cardinality(SimilarPool) < 3
                          THEN Cardinality(SimilarPool) ELSE 3
        /\ \A a, b \in 1..Len(similar) :
              a < b =>
                  \/ MidDiff(pflanzen_df[similar[a]]) < MidDiff(pflanzen_df[similar[b]])
                  \/ /\ MidDiff(pflanzen_df[similar[a]]) = MidDiff(pflanzen_df[similar[b]])
                     /\ similar[a] < similar[b]
        /\ \A j \in SimilarPool \ Range(similar) : \A i \in Range(similar) :
              \/ MidDiff(pflanzen_df[j]) > MidDiff(pflanzen_df[i])
              \/ /\ MidDiff(pflanzen_df[j]) = MidDiff(pflanzen_df[i])
                 /\ j > i
        /\ pc = "done" => Shows("similar", similar)

\* C3 witness: a finished run whose Similar pool has more than 3 rows, two of
\* them with equal diff of which one is kept, and a row kept that stands later
\* in the catalog than a row left out.
C3_Witness ==
    /\ pc = "done"
    /\ Cardinality(SimilarPool) > 3
    /\ \E i \in Range(similar) : \E j \in SimilarPool \ {i} :
          MidDiff(pflanzen_df[i]) = MidDiff(pflanzen_df[j])
    /\ \E i \in Range(similar) : \E j \in SimilarPool \ Range(similar) : j < i

\* C4: in a run in which the Filter has run, the Fallback section is opened
\* if and only if both the Perfect and the Similar tier are empty, and
\* fallback plants are drawn and displayed only then; without the Filter
\* there is no Fallback section.
C4_FallbackIffBothEmpty ==
    /\ (FilterRan /\ Ended) =>
          ("Zufaellige Vorschlaege" \in Range(sections)
              <=> (perfect = <<>> /\ similar = <<>>))
    /\ TierPanels("fallback") # <<>> =>
          /\ "Zufaellige Vorschlaege" \in Range(sections)
          /\ perfect = <<>> /\ similar = <<>>
    /\ "Zufaellige Vorschlaege" \in Range(sections) => FilterRan

\* C4 witness: a finished run at a numeric avg_temp that shows fallback
\* plants, over a catalog that holds a plant on the chosen site.
C4_Witness ==
    /\ pc = "done"
    /\ temp.k = "num"
    /\ TierPanels("fallback") # <<>>
    /\ \E r \in Range(pflanzen_df) : SiteAccepted(r)

\* C5: whenever the Fallback section is opened, the run completes without an
\* error and shows exactly min(5, catalog size) distinct plants of the
\* catalog in it.
C5_FallbackHasMinFiveOrAll ==
    "Zufaellige Vorschlaege" \in Range(sections) =>
        /\ pc = "done"
        /\ Len(TierPanels("fallback")) =
              (IF Len(pflanzen_df) < 5 THEN Len(pflanzen_df) ELSE 5)
        /\ \A p \in Range(TierPanels("fallback")) :
              \E r \in Range(pflanzen_df) : r.name = p.name
        /\ \A a, b \in 1..Len(TierPanels("fallback")) :
              a # b => TierPanels("fallback")[a].name # TierPanels("fallback")[b].name

\* C6: whenever the location is resolved and the archive yields an average
\* temperature, whatever the other five climate fields are, the run does not
\* stop before the Filter: it never ends without having run it (a missing
\* catalog file aside).
C6_FilterRunsWheneverAvgTempKnown ==
    (/\ geo = "results"
     /\ wetter.hist = "ok"
     /\ wetter.tmean.k = "num"
     /\ Ended) => FilterRan

\* The Location Resolver yielded no result for the entered city.
NoLocation == geo \in {"no_results", "http_error", "timeout", "bad_json"}

\* C7: when the Location Resolver yields no result (empty list, HTTP error,
\* timeout, unparsable answer), the warning is shown, the Climate Summarizer
\* is never called, and no tier is ever computed or displayed.
C7_NoLocationNoRecommendation ==
    NoLocation =>
        /\ pc # "nicht_gefunden" => "Stadt nicht gefunden" \in Range(sections)
        /\ wetter = NoWeather
        /\ temp = Unset
        /\ metrics = NoMetrics
        /\ pc \notin {"get_weather", "zeige_metriken", "render"}
        /\ ~FilterRan
        /\ perfect = <<>> /\ candidates = <<>> /\ similar = <<>>
        /\ panels = <<>>

\* C7 witness: a run that ended after a lookup that timed out, over a
\* catalog that holds plants.
C7_Witness ==
    /\ pc = "done"
    /\ geo = "timeout"
    /\ Len(pflanzen_df) >= 5

\* C8: every displayed plant whose range does not hold avg_temp reports the
\* distance to the range: min_temp - avg_temp below it, avg_temp - max_temp
\* above it; a plant whose range holds avg_temp reports "within range".
\* Stated for the panels whose title carries the directional message (the
\* panels of the Perfect and the Fallback tier carry only the hint, which
\* names no number of degrees).
C8_MessageReportsDistanceToRange ==
    \A p \in Range(panels) :
        (temp.k = "num" /\ p.diff_text # "") =>
            IF temp.v < RowOf(p).min_temp
            THEN p.diff_text = "unter" /\ p.delta = RowOf(p).min_temp - temp.v
            ELSE IF temp.v > RowOf(p).max_temp
            THEN p.diff_text = "ueber" /\ p.delta = temp.v - RowOf(p).max_temp
            ELSE p.hinweis = "Im Idealbereich"

\* The rating of a diff given in tenths of a degree.
Rating(d) ==
    IF d <= 20 THEN "Sehr aehnlich" ELSE IF d <= 40 THEN "Okay" ELSE "Abweichend"

\* C9 as stated: every plant displayed in the Perfect or the Similar tier
\* carries the rating of its diff (<= 2 very similar, <= 4 acceptable, else
\* divergent; MidDiff counts twentieths); Fallback plants carry none.
C9_PerfectAndSimilarAreRated ==
    \A p \in Range(panels) :
        IF p.tier = "fallback" THEN p.bewertung = ""
        ELSE p.bewertung =
                (IF MidDiff(RowOf(p)) <= 40 THEN "Sehr aehnlich"
                 ELSE IF MidDiff(RowOf(p)) <= 80 THEN "Okay" ELSE "Abweichend")

\* C9 amended: every plant displayed in the Similar tier carries the rating
\* of its diff rounded to one decimal (<= 2.0 very similar, <= 4.0
\* acceptable, else divergent); plants displayed in the Perfect tier and in
\* the Fallback tier carry none.
C9_OnlySimilarIsRated ==
    \A p \in Range(panels) :
        IF p.tier = "similar"
        THEN \E d \in Round1(MidDiff(RowOf(p)), 2) : p.bewertung = Rating(d)
        ELSE p.bewertung = ""

\* C9 witness: a finished run that shows a perfect plant and similar plants
\* of two different ratings, one of them with a diff of exactly 2.0 or 4.0.
C9_Witness ==
    /\ pc = "done"
    /\ TierPanels("perfect") # <<>>
    /\ \E p, q \in Range(TierPanels("similar")) :
          /\ p.bewertung # q.bewertung
          /\ MidDiff(RowOf(p)) \in {40, 80}

\* C10: the Similar tier's window relaxes the Perfect tier's range for every
\* avg_temp: a plant on an accepted site whose range holds avg_temp passes
\* the window, and is a Similar candidate when it is not in Perfect.
C10_WindowRelaxesRange ==
    FilterRan =>
        \A i \in 1..Len(pflanzen_df) :
            (InRange(pflanzen_df[i]) /\ SiteAccepted(pflanzen_df[i])) =>
                /\ InWindow(pflanzen_df[i])
                /\ i \notin Range(perfect) => i \in Range(candidates)

=============================================================================
